---- MODULE Spec2Model ----
(***************************************************************************)
(* Model of analytics/pubsub_consumer.py: a Pub/Sub subscriber that        *)
(* creates its topic and subscription, optionally connects to Databricks   *)
(* under a SIGALRM timeout, and then handles each delivered message in     *)
(* callback().  The main thread is a program counter over the module's     *)
(* top-level statements; every callback invocation is a sequence of the    *)
(* events it has performed so far.  Time is counted in seconds left on the *)
(* pending alarm.                                                          *)
(***************************************************************************)
EXTENDS Integers, Sequences, FiniteSets, TLC

VARIABLES
    environ,              \* os.environ after load_dotenv, and whether pandas is installed
    pc,                   \* position of the main thread
    PANDAS_AVAILABLE,     \* line 11 / 13
    DATABRICKS_AVAILABLE, \* line 17 / 75
    GOAL_TOPIC,           \* line 27
    topic_path,           \* line 40
    subscription_path,    \* line 41
    host, path, token,    \* lines 67-69
    conn,                 \* line 64 / 88 / 98 / 103 / 107 / 111
    alarm,                \* seconds left on the pending SIGALRM, 0 when none is pending
    log,                  \* the main thread's calls so far, in order
    msgs                  \* callback invocations: the message's data and the events so far

vars == <<environ, pc, PANDAS_AVAILABLE, DATABRICKS_AVAILABLE, GOAL_TOPIC, topic_path,
          subscription_path, host, path, token, conn, alarm, log, msgs>>

\* Number of messages the client library delivers in one run.
MaxMsgs == 2

\* signal.alarm(5)
AlarmSeconds == 5

\* Python's None, as returned by os.getenv for an unset variable.
None == "None"

\* Values an environment variable holding a credential can have.
CredValues == {None, "", "set"}

\* Values of PUBSUB_TOPIC.
TopicValues == {None, "match-events"}

Environments ==
    [pandas_installed : BOOLEAN,
     PUBSUB_TOPIC : TopicValues,
     DATABRICKS_HOST : CredValues,
     DATABRICKS_HTTP_PATH : CredValues,
     DATABRICKS_TOKEN : CredValues]

\* The kinds of message.data the callback can be handed.
MessageData == {"invalid_utf8", "invalid_json", "json_scalar", "payload_null", "goal_event"}

\* os.getenv(name, default)
getenv(value, default) == IF value = None THEN default ELSE value

\* Truth value of a str-or-None, as `if host and path and token` takes it.
TruthyEmptyToo(v) == v # None
Truthy(v) == v \notin {None, ""}

\* publisher_client.topic_path(PROJECT_ID, "goal-events")
TopicPath(goal_topic) == "goal-events"

\* subscriber_client.subscription_path(PROJECT_ID, "goal-events-sub")
SubscriptionPath == "goal-events-sub"

\* One entry of the main thread's log: the call, its argument, and where it was made.
Ev(op, arg) == [op |-> op, arg |-> arg, at |-> pc]

Ops(l) == {l[i].op : i \in 1..Len(l)}
Count(l, op) == Cardinality({i \in 1..Len(l) : l[i].op = op})
First(l, op) == CHOOSE i \in 1..Len(l) : l[i].op = op /\ \A j \in 1..(i-1) : l[j].op # op

Init ==
    /\ environ \in Environments
    /\ pc = "import_pandas"
    /\ PANDAS_AVAILABLE = FALSE
    /\ DATABRICKS_AVAILABLE = FALSE
    /\ GOAL_TOPIC = None
    /\ topic_path = None
    /\ subscription_path = None
    /\ host = None /\ path = None /\ token = None
    /\ conn = "unbound"
    /\ alarm = 0
    /\ log = <<>>
    /\ msgs = [m \in 1..MaxMsgs |-> [data |-> None, ev |-> <<>>]]


(***************************************************************************)
(* Startup: the module's top-level statements, in order.                   *)
(***************************************************************************)

\* Lines 9-14: try: import pandas / except ImportError.
ImportPandas ==
    /\ pc = "import_pandas"
    /\ PANDAS_AVAILABLE' = environ.pandas_installed
    /\ pc' = "load_config"
    /\ UNCHANGED <<environ, DATABRICKS_AVAILABLE, GOAL_TOPIC, topic_path, subscription_path,
                   host, path, token, conn, alarm, log, msgs>>

\* Lines 26-41: read the configuration, build the clients and the two paths.
LoadConfig ==
    /\ pc = "load_config"
    /\ GOAL_TOPIC' = getenv(environ.PUBSUB_TOPIC, "goal-events")
    /\ topic_path' = TopicPath(GOAL_TOPIC')
    /\ subscription_path' = SubscriptionPath
    /\ pc' = "create_topic"
    /\ UNCHANGED <<environ, PANDAS_AVAILABLE, DATABRICKS_AVAILABLE, host, path, token,
                   conn, alarm, log, msgs>>

\* What create_topic / create_subscription can do: return, raise "already exists",
\* raise anything else.
CreateOutcomes == {"created", "already exists", "error"}

\* The two except clauses only choose between two messages to print: what the script
\* keeps of an outcome is whether the call returned (0) or was caught raising (1).
Caught(outcome) == IF outcome = "created" THEN 0 ELSE 1

\* Lines 43-50: every exception of create_topic is caught and printed.
CreateTopic ==
    /\ pc = "create_topic"
    /\ \E outcome \in CreateOutcomes :
         log' = Append(log, Ev("create_topic", Caught(outcome)))
    /\ pc' = "create_subscription"
    /\ UNCHANGED <<environ, PANDAS_AVAILABLE, DATABRICKS_AVAILABLE, GOAL_TOPIC, topic_path,
                   subscription_path, host, path, token, conn, alarm, msgs>>

\* Lines 52-61: every exception of create_subscription is caught and printed.
CreateSubscription ==
    /\ pc = "create_subscription"
    /\ \E outcome \in CreateOutcomes :
         log' = Append(log, Ev("create_subscription", Caught(outcome)))
    /\ pc' = "check_credentials"
    /\ UNCHANGED <<environ, PANDAS_AVAILABLE, DATABRICKS_AVAILABLE, GOAL_TOPIC, topic_path,
                   subscription_path, host, path, token, conn, alarm, msgs>>

\* Lines 64-72 and 112-113: conn = None, read the three credentials, test them.
CheckCredentials ==
    /\ pc = "check_credentials"
    /\ conn' = None
    /\ host' = environ.DATABRICKS_HOST
    /\ path' = environ.DATABRICKS_HTTP_PATH
    /\ token' = environ.DATABRICKS_TOKEN
    /\ pc' = IF Truthy(host') /\ Truthy(path') /\ Truthy(token')
                THEN "import_databricks" ELSE "subscribe"
    /\ UNCHANGED <<environ, PANDAS_AVAILABLE, DATABRICKS_AVAILABLE, GOAL_TOPIC, topic_path,
                   subscription_path, alarm, log, msgs>>

\* Lines 74-75: from databricks import sql: it raises ImportError (0), imports (1),
\* or raises something else while importing (2, caught at line 108).
ImportDatabricks ==
    /\ pc = "import_databricks"
    /\ \E outcome \in {0, 1, 2} :
         /\ log' = Append(log, Ev("import_databricks", outcome))
         /\ DATABRICKS_AVAILABLE' = (outcome = 1)
         /\ pc' = CASE outcome = 0 -> "except_import"
                    [] outcome = 1 -> "arm_alarm"
                    [] OTHER -> "except_outer"
    /\ UNCHANGED <<environ, PANDAS_AVAILABLE, GOAL_TOPIC, topic_path, subscription_path,
                   host, path, token, conn, alarm, msgs>>

\* Lines 105-107: except ImportError.
ExceptImport ==
    /\ pc = "except_import"
    /\ conn' = None
    /\ pc' = "subscribe"
    /\ UNCHANGED <<environ, PANDAS_AVAILABLE, DATABRICKS_AVAILABLE, GOAL_TOPIC, topic_path,
                   subscription_path, host, path, token, alarm, log, msgs>>

\* Lines 78-85: install timeout_handler and arm the alarm.
ArmAlarm ==
    /\ pc = "arm_alarm"
    /\ alarm' = AlarmSeconds
    /\ log' = Append(log, Ev("signal.alarm", AlarmSeconds))
    /\ pc' = "connect"
    /\ UNCHANGED <<environ, PANDAS_AVAILABLE, DATABRICKS_AVAILABLE, GOAL_TOPIC, topic_path,
                   subscription_path, host, path, token, conn, msgs>>

\* Line 88: sql.connect returns a connection before the alarm fires.
ConnectReturns ==
    /\ pc = "connect"
    /\ conn' = "Connection"
    /\ log' = Append(log, Ev("sql.connect", 0))
    /\ pc' = "connected"
    /\ UNCHANGED <<environ, PANDAS_AVAILABLE, DATABRICKS_AVAILABLE, GOAL_TOPIC, topic_path,
                   subscription_path, host, path, token, alarm, msgs>>

\* Line 88: sql.connect raises before the alarm fires: a TimeoutError of its own
\* (arg 1, caught at line 95) or any other exception (arg 2, caught at line 99).
ConnectRaises ==
    /\ pc = "connect"
    /\ \E exc \in {1, 2} :
         /\ log' = Append(log, Ev("sql.connect", exc))
         /\ pc' = IF exc = 1 THEN "except_timeout" ELSE "except_connect"
    /\ UNCHANGED <<environ, PANDAS_AVAILABLE, DATABRICKS_AVAILABLE, GOAL_TOPIC, topic_path,
                   subscription_path, host, path, token, conn, alarm, msgs>>

\* Lines 93-94: signal.alarm(0) after a successful connect.
CancelAlarm ==
    /\ pc = "connected"
    /\ alarm' = 0
    /\ log' = Append(log, Ev("signal.alarm", 0))
    /\ pc' = "subscribe"
    /\ UNCHANGED <<environ, PANDAS_AVAILABLE, DATABRICKS_AVAILABLE, GOAL_TOPIC, topic_path,
                   subscription_path, host, path, token, conn, msgs>>

\* The value the `except TimeoutError` clause leaves in conn (line 98).
ConnKeptOnTimeout(c) == c
ConnAfterTimeout(c) == None

\* Lines 95-98: except TimeoutError; the alarm is not touched here.
ExceptTimeout ==
    /\ pc = "except_timeout"
    /\ conn' = ConnAfterTimeout(conn)
    /\ pc' = "subscribe"
    /\ UNCHANGED <<environ, PANDAS_AVAILABLE, DATABRICKS_AVAILABLE, GOAL_TOPIC, topic_path,
                   subscription_path, host, path, token, alarm, log, msgs>>

\* Lines 99-103: except Exception of the inner try: cancel the alarm, conn = None.
ExceptConnect ==
    /\ pc = "except_connect"
    /\ alarm' = 0
    /\ log' = Append(log, Ev("signal.alarm", 0))
    /\ conn' = None
    /\ pc' = "subscribe"
    /\ UNCHANGED <<environ, PANDAS_AVAILABLE, DATABRICKS_AVAILABLE, GOAL_TOPIC, topic_path,
                   subscription_path, host, path, token, msgs>>

\* Lines 108-111: except Exception of the outer try.
ExceptOuter ==
    /\ pc = "except_outer"
    /\ conn' = None
    /\ pc' = "subscribe"
    /\ UNCHANGED <<environ, PANDAS_AVAILABLE, DATABRICKS_AVAILABLE, GOAL_TOPIC, topic_path,
                   subscription_path, host, path, token, alarm, log, msgs>>

\* Lines 115-153: define callback and call subscriber_client.subscribe.
Subscribe ==
    /\ pc = "subscribe"
    /\ log' = Append(log, Ev("subscribe", 0))
    /\ pc' = "listening"
    /\ UNCHANGED <<environ, PANDAS_AVAILABLE, DATABRICKS_AVAILABLE, GOAL_TOPIC, topic_path,
                   subscription_path, host, path, token, conn, alarm, msgs>>

(***************************************************************************)
(* The alarm.  timeout_handler raises TimeoutError in the main thread,     *)
(* wherever it is when the signal arrives.                                 *)
(***************************************************************************)

\* Where a TimeoutError raised at position p is caught: in the inner try by line 95,
\* in one of the inner handlers by line 108, anywhere after the outer try by nothing.
HandlerOf(p) ==
    CASE p \in {"connect", "connected"} -> "except_timeout"
      [] p \in {"except_timeout", "except_connect"} -> "except_outer"
      [] OTHER -> "crashed"

\* A second passes with the alarm still pending.
Tick ==
    /\ alarm > 1
    /\ alarm' = alarm - 1
    /\ UNCHANGED <<environ, pc, PANDAS_AVAILABLE, DATABRICKS_AVAILABLE, GOAL_TOPIC,
                   topic_path, subscription_path, host, path, token, conn, log, msgs>>

\* Lines 80-81: the alarm expires and timeout_handler raises TimeoutError.
AlarmFires ==
    /\ alarm = 1
    /\ alarm' = 0
    /\ log' = Append(log, Ev("SIGALRM", 0))
    /\ pc' = HandlerOf(pc)
    /\ UNCHANGED <<environ, PANDAS_AVAILABLE, DATABRICKS_AVAILABLE, GOAL_TOPIC, topic_path,
                   subscription_path, host, path, token, conn, msgs>>


(***************************************************************************)
(* callback(message): one invocation per delivered message, run by the     *)
(* client library's threads while the main thread waits in                 *)
(* streaming_future.result().  An invocation's ev is the sequence of what  *)
(* it has done: "decoded", "logged", "write_ok", "local_log", "ack", or a  *)
(* final "raise:decode", "raise:log", "raise:write".                       *)
(***************************************************************************)

\* Line 116: json.loads(message.data.decode("utf-8")) raises on bytes that are not
\* UTF-8 (UnicodeDecodeError) or not JSON (JSONDecodeError), and returns otherwise.
Decodes(data) == data \notin {"invalid_utf8", "invalid_json"}

\* Lines 123-129: data.get(...) needs data to be a dict, payload.items() needs the
\* payload to be a dict; anything else raises AttributeError.
LogRaises(data) == data \in {"json_scalar", "payload_null"}

\* Line 133: if conn and PANDAS_AVAILABLE.
WriteMode == conn \notin {None, "unbound"} /\ PANDAS_AVAILABLE

Last(ev) == IF ev = <<>> THEN "" ELSE ev[Len(ev)]
Has(ev, e) == \E i \in 1..Len(ev) : ev[i] = e
Times(ev, e) == Cardinality({i \in 1..Len(ev) : ev[i] = e})
Raised(ev) == Last(ev) \in {"raise:decode", "raise:log", "raise:write"}
Finished(ev) == Raised(ev) \/ Last(ev) = "ack"

\* Line 116: the library calls callback with a message; its data is decoded.
Receive(m) ==
    /\ pc = "listening"
    /\ msgs[m].ev = <<>>
    /\ \A k \in 1..(m-1) : msgs[k].ev # <<>>
    /\ \E data \in MessageData :
         msgs' = [msgs EXCEPT ![m] =
                    [data |-> data,
                     ev |-> IF Decodes(data) THEN <<"decoded">> ELSE <<"raise:decode">>]]
    /\ UNCHANGED <<environ, pc, PANDAS_AVAILABLE, DATABRICKS_AVAILABLE, GOAL_TOPIC,
                   topic_path, subscription_path, host, path, token, conn, alarm, log>>

\* Lines 119-131: print the event type and the payload's items.
LogEvent(m) ==
    /\ pc = "listening"
    /\ Last(msgs[m].ev) = "decoded"
    /\ msgs' = [msgs EXCEPT ![m].ev =
                  Append(@, IF LogRaises(msgs[m].data) THEN "raise:log" ELSE "logged")]
    /\ UNCHANGED <<environ, pc, PANDAS_AVAILABLE, DATABRICKS_AVAILABLE, GOAL_TOPIC,
                   topic_path, subscription_path, host, path, token, conn, alarm, log>>

\* What the invocation has done once df.to_sql has returned or raised (lines 135-137):
\* an exception of the write leaves the callback at once.
AfterWriteAckAnyway(ev, ok) == IF ok THEN Append(ev, "write_ok") ELSE ev \o <<"raise:write", "ack">>
AfterWrite(ev, ok) == Append(ev, IF ok THEN "write_ok" ELSE "raise:write")

\* The value of the global conn once the write branch has run: callback only reads it.
ConnDroppedOnFailure(c, ok) == IF ok THEN c ELSE None
ConnAfterWrite(c, ok) == c

\* Lines 133-137: the write branch: json_normalize and one to_sql append.
WriteEvent(m) ==
    /\ pc = "listening"
    /\ Last(msgs[m].ev) = "logged"
    /\ WriteMode
    /\ \E ok \in BOOLEAN :
         /\ msgs' = [msgs EXCEPT ![m].ev = AfterWrite(@, ok)]
         /\ conn' = ConnAfterWrite(conn, ok)
    /\ UNCHANGED <<environ, pc, PANDAS_AVAILABLE, DATABRICKS_AVAILABLE, GOAL_TOPIC,
                   topic_path, subscription_path, host, path, token, alarm, log>>

\* Lines 138-145: the local-only branch: one more print.
LocalOnly(m) ==
    /\ pc = "listening"
    /\ Last(msgs[m].ev) = "logged"
    /\ ~WriteMode
    /\ msgs' = [msgs EXCEPT ![m].ev = Append(@, "local_log")]
    /\ UNCHANGED <<environ, pc, PANDAS_AVAILABLE, DATABRICKS_AVAILABLE, GOAL_TOPIC,
                   topic_path, subscription_path, host, path, token, conn, alarm, log>>

\* Lines 147-150: message.ack(), the callback's last statement.
Ack(m) ==
    /\ pc = "listening"
    /\ Last(msgs[m].ev) \in {"write_ok", "local_log"}
    /\ msgs' = [msgs EXCEPT ![m].ev = Append(@, "ack")]
    /\ UNCHANGED <<environ, pc, PANDAS_AVAILABLE, DATABRICKS_AVAILABLE, GOAL_TOPIC,
                   topic_path, subscription_path, host, path, token, conn, alarm, log>>

Next ==
    \/ ImportPandas
    \/ LoadConfig
    \/ CreateTopic
    \/ CreateSubscription
    \/ CheckCredentials
    \/ ImportDatabricks
    \/ ExceptImport
    \/ ArmAlarm
    \/ ConnectReturns
    \/ ConnectRaises
    \/ CancelAlarm
    \/ ExceptTimeout
    \/ ExceptConnect
    \/ ExceptOuter
    \/ Subscribe
    \/ Tick
    \/ AlarmFires
    \/ \E m \in 1..MaxMsgs : Receive(m)
    \/ \E m \in 1..MaxMsgs : LogEvent(m)
    \/ \E m \in 1..MaxMsgs : WriteEvent(m)
    \/ \E m \in 1..MaxMsgs : LocalOnly(m)
    \/ \E m \in 1..MaxMsgs : Ack(m)

Spec == Init /\ [][Next]_vars


(***************************************************************************)
(* Vocabulary of the properties.                                           *)
(***************************************************************************)

\* The three credentials as the environment holds them.
Credentials == {environ.DATABRICKS_HOST, environ.DATABRICKS_HTTP_PATH, environ.DATABRICKS_TOKEN}
CredentialsAbsent == Credentials \cap {None, ""} # {}

\* The main thread has left the Databricks connection phase (lines 63-113).
PhaseEnded == pc \in {"subscribe", "listening", "crashed"}
Subscribed == "subscribe" \in Ops(log)

WriteAttempts(ev) == Times(ev, "write_ok") + Times(ev, "raise:write")
Position(ev, e) == CHOOSE i \in 1..Len(ev) : ev[i] = e
RaiseEvents == {"raise:decode", "raise:log", "raise:write"}

\* C1: when any of DATABRICKS_HOST, DATABRICKS_HTTP_PATH, DATABRICKS_TOKEN is unset or
\* empty, the connector is never imported, no alarm is armed, sql.connect is never
\* called, conn is None once assigned, and no callback invocation attempts a write:
\* each one that gets past the logging takes the local-only branch.
C1_NoCredentialsLocalOnly ==
    CredentialsAbsent =>
        /\ Ops(log) \cap {"import_databricks", "signal.alarm", "sql.connect", "SIGALRM"} = {}
        /\ ~DATABRICKS_AVAILABLE
        /\ alarm = 0
        /\ conn \in {"unbound", None}
        /\ PhaseEnded => conn = None
        /\ \A m \in 1..MaxMsgs :
             /\ WriteAttempts(msgs[m].ev) = 0
             /\ Len(msgs[m].ev) >= 3 => msgs[m].ev[3] = "local_log"

\* C1 witness: with pandas installed and one credential set to the empty string, a
\* message has gone through the local-only branch and been acknowledged.
C1_Witness ==
    /\ PANDAS_AVAILABLE
    /\ environ.DATABRICKS_HOST = "set" /\ environ.DATABRICKS_HTTP_PATH = "set"
    /\ environ.DATABRICKS_TOKEN = ""
    /\ \E m \in 1..MaxMsgs : msgs[m].ev = <<"decoded", "logged", "local_log", "ack">>

\* C2 (as claimed): when pandas or the databricks connector fails to import, no message
\* is ever written to the database and the script is not stopped before it subscribes.
C2_MissingDependencyStillListens ==
    ((pc # "import_pandas" /\ ~PANDAS_AVAILABLE)
        \/ \E i \in 1..Len(log) : log[i].op = "import_databricks" /\ log[i].arg = 0) =>
        /\ \A m \in 1..MaxMsgs : WriteAttempts(msgs[m].ev) = 0
        /\ pc = "crashed" => Subscribed

\* C3 (as claimed): with a connection and pandas, every invocation whose message
\* decodes attempts exactly one write, before the ack, and acks only after a write
\* that returned.
C3_EveryDecodedMessageWritten ==
    (pc = "listening" /\ WriteMode) =>
        \A m \in 1..MaxMsgs :
            LET ev == msgs[m].ev IN
            /\ (Has(ev, "decoded") /\ Finished(ev)) => WriteAttempts(ev) = 1
            /\ Has(ev, "ack") => (Has(ev, "write_ok") /\ Position(ev, "write_ok") < Position(ev, "ack"))

\* C4: an invocation never nacks, decodes once and writes at most once (no retry), acks
\* at most once and only as its last step, and an invocation that raised stops there
\* with its message not acked.
C4_NoRetryAckLast ==
    \A m \in 1..MaxMsgs :
        LET ev == msgs[m].ev IN
        /\ ~Has(ev, "nack")
        /\ Times(ev, "decoded") + Times(ev, "raise:decode") <= 1
        /\ WriteAttempts(ev) <= 1
        /\ Times(ev, "ack") <= 1
        /\ Has(ev, "ack") => Last(ev) = "ack"
        /\ \A i \in 1..Len(ev) : ev[i] \in RaiseEvents => (i = Len(ev) /\ ~Has(ev, "ack"))

\* C4 witness: one invocation's write raised and another invocation has acked.
C4_Witness ==
    /\ \E m \in 1..MaxMsgs : Last(msgs[m].ev) = "raise:write"
    /\ \E m \in 1..MaxMsgs : Last(msgs[m].ev) = "ack"

\* C5 (as claimed): in local-only mode every invocation whose message decodes ends
\* with exactly one ack, after logging it.
C5_EveryDecodedMessageAcked ==
    (pc = "listening" /\ ~WriteMode) =>
        \A m \in 1..MaxMsgs :
            LET ev == msgs[m].ev IN
            (Has(ev, "decoded") /\ Finished(ev)) =>
                (Last(ev) = "ack" /\ Times(ev, "ack") = 1 /\ Has(ev, "local_log"))

\* C6: sql.connect is only ever called right after signal.alarm(5), and runs with the
\* alarm pending for at most 5 seconds; when the alarm fires during the attempt the
\* TimeoutError is caught, conn ends None and the script goes on to subscribe; conn is a
\* connection after the phase only if connect returned, nothing was raised and the
\* alarm never fired.
C6_ConnectBoundedByAlarm ==
    /\ \A i \in 1..Len(log) :
         log[i].op = "sql.connect" =>
            (i > 1 /\ log[i-1].op = "signal.alarm" /\ log[i-1].arg = 5)
    /\ (DATABRICKS_AVAILABLE /\ pc # "arm_alarm") => "signal.alarm" \in Ops(log)
    /\ pc = "connect" => alarm \in 1..5
    /\ (\E i \in 1..Len(log) : log[i].op = "SIGALRM" /\ log[i].at \in {"connect", "connected"}) =>
         /\ pc \in {"except_timeout", "subscribe", "listening"}
         /\ alarm = 0
         /\ PhaseEnded => conn = None
    /\ (PhaseEnded /\ conn # None) =>
         /\ conn = "Connection"
         /\ \E i \in 1..Len(log) : log[i].op = "sql.connect" /\ log[i].arg = 0
         /\ \A i \in 1..Len(log) : log[i].op = "sql.connect" => log[i].arg = 0
         /\ "SIGALRM" \notin Ops(log)

\* C6 witness: the alarm fired while connect was running, and the script is listening
\* in local-only mode.
C6_Witness ==
    /\ \E i \in 1..Len(log) : log[i].op = "SIGALRM" /\ log[i].at = "connect"
    /\ pc = "listening"
    /\ conn = None

\* C7 (as claimed): nothing in startup stops the script before it subscribes; the topic
\* is created before the subscription, the subscription is attempted whatever the
\* topic's outcome, and subscribe is called once, after the three steps.
C7_StartupReachesListening ==
    /\ pc = "crashed" => Subscribed
    /\ Count(log, "subscribe") <= 1
    /\ Count(log, "create_topic") <= 1
    /\ Count(log, "create_subscription") <= 1
    /\ "create_subscription" \in Ops(log) =>
         ("create_topic" \in Ops(log) /\ First(log, "create_topic") < First(log, "create_subscription"))
    /\ Subscribed =>
         /\ "create_subscription" \in Ops(log)
         /\ First(log, "create_subscription") < First(log, "subscribe")
         /\ conn # "unbound"
         /\ \A i \in 1..Len(log) :
              log[i].op \in {"import_databricks", "sql.connect"} => i < First(log, "subscribe")

\* C8 (as claimed): once the connection phase has ended no alarm is pending, so the
\* main thread is never killed by timeout_handler's TimeoutError.
C8_NoAlarmAfterPhase ==
    /\ PhaseEnded => alarm = 0
    /\ pc # "crashed"

\* The invocations that reached line 133 took the same branch.
SameBranch ==
    \A m, n \in 1..MaxMsgs :
        ~(WriteAttempts(msgs[m].ev) > 0 /\ Has(msgs[n].ev, "local_log"))

\* C9: from the call of subscribe on, no step changes conn or PANDAS_AVAILABLE, whatever
\* the callbacks do, and all invocations take the same branch.
C9_ModeFixedAfterSubscribe ==
    [][Subscribed => (conn' = conn /\ PANDAS_AVAILABLE' = PANDAS_AVAILABLE /\ SameBranch')]_vars

\* C9 witness: in write mode one invocation's write raised and another's write went
\* through and was acknowledged.
C9_Witness ==
    /\ WriteMode
    /\ \E m, n \in 1..MaxMsgs :
         /\ Last(msgs[m].ev) = "raise:write"
         /\ msgs[n].ev = <<"decoded", "logged", "write_ok", "ack">>

\* C10 (as claimed): the topic the script creates and subscribes to is the one
\* PUBSUB_TOPIC names, "goal-events" when it is unset.
C10_TopicFromEnvironment ==
    topic_path # None => topic_path = getenv(environ.PUBSUB_TOPIC, "goal-events")

====
